---------------------------- MODULE Spec2Model ----------------------------
(***************************************************************************)
(* Model of the LibJS test262 runner (src/src/main.cpp) and of the host    *)
(* objects it installs ($262Object.cpp, GlobalObject.cpp, AgentObject.cpp, *)
(* IsHTMLDDA.cpp).                                                         *)
(*                                                                         *)
(* Spec     : one invocation of main(): output capture set-up, the harness *)
(*            files and the main source run through run_script(), capture  *)
(*            tear-down and the report.  The scripts are the environment:  *)
(*            while a program executes it may call print() any number of   *)
(*            times and then completes or leaves an uncaught exception.    *)
(* SpecClassify : the same runner with scripts that print nothing and      *)
(*            throw any kind of value (classification of the exception).   *)
(* SpecSources : the same runner with scripts that set global variables.   *)
(* SpecHost : the host API of one realm called by a running script in any  *)
(*            order ($262.detachArrayBuffer, $262.IsHTMLDDA).              *)
(* SpecRealm : $262.createRealm, $262.evalScript and assignments to the    *)
(*            properties of $262 objects (AgentObject.cpp, IsHTMLDDA.cpp   *)
(*            give the cells of a realm).                                  *)
(* SpecAgent : $262.agent.monotonicNow and $262.agent.sleep while the      *)
(*            system clock runs or is set back.                            *)
(***************************************************************************)
EXTENDS Integers, Sequences, FiniteSets

VARIABLES
    harness_files,  \* main.cpp:120  the positional arguments, in order
    pc,             \* position of main()
    exit_code,      \* <<>> while running, <<n>> once main() returned n
    stderr,         \* the messages perror() wrote
    fd1,            \* what STDOUT_FILENO refers to: "tty" or "pipe"
    nonblock,       \* O_NONBLOCK is set on stdout_pipe[0]
    stdio,          \* bytes held in the stdout FILE buffer, not yet written
    pipe,           \* bytes in the capture pipe, not yet read
    written,        \* history: every byte handed to stdout while redirected
    nread,          \* main.cpp:189  result of read(): -1 or a byte count
    buffer,         \* main.cpp:132  the bytes read() stored
    result_object,  \* main.cpp:171
    cur,            \* index of the source being run (0: none yet)
    trace,          \* history: what run_script() did with each source
    steps,          \* number of print() calls made so far
    tty,            \* history: records written to the original stdout
    buffers,        \* heap: the ArrayBuffer objects of the realm
    calls,          \* number of host calls the script has made
    last,           \* history: the last host call and its completion
    vm_heap,        \* the cells of the VM's heap, in order of allocation
    clock,          \* the system (wall) clock, in milliseconds
    nows            \* history: the values agent.monotonicNow() returned

vars == <<harness_files, pc, exit_code, stderr, fd1, nonblock, stdio, pipe, written,
          nread, buffer, result_object, cur, trace, steps, tty, buffers, calls,
          last, vm_heap, clock, nows>>

runnerVars == <<harness_files, pc, exit_code, stderr, fd1, nonblock, stdio, pipe,
                written, nread, buffer, result_object, cur, trace, steps, tty>>

hostVars == <<buffers, calls, last, vm_heap, clock, nows>>

-----------------------------------------------------------------------------
(* Bounds of the model *)

MaxHarness == 2         \* harness files on the command line
MaxSteps == 2           \* print() calls during one invocation
MaxDiags == 2           \* diagnostics the parser reports for one source
MaxCalls == 3           \* host calls made by the script of SpecHost
PipeCapacity == 65536   \* bytes the kernel holds in a pipe nobody reads

(* Program constants *)

BUFFER_SIZE == 1024

-----------------------------------------------------------------------------
(* Optional values: a JSON member or a Result that is absent or present *)

None == <<>>
Some(x) == <<x>>
Has(o) == o # <<>>
Get(o) == o[1]

-----------------------------------------------------------------------------
(* JS values.  A value is <<tag, payload>>; "empty" is the C++ empty Value  *)
(* (no property found / exception), "accessor" marks an accessor property. *)

Empty == <<"empty", "">>
Accessor == <<"accessor", "">>
Undefined == <<"undefined", "">>
Null == <<"null", "">>
Num(n) == <<"number", n>>
Str(s) == <<"string", s>>
Obj(id) == <<"object", id>>

is_empty(v) == v[1] = "empty"
is_accessor(v) == v[1] = "accessor"
is_object(v) == v[1] = "object"
is_string(v) == v[1] = "string"

\* Value::to_string_without_side_effects(), as used for "type" and "details"
to_string_without_side_effects(v) ==
    CASE v[1] = "string" -> v[2]
      [] v[1] = "number" -> v[2]
      [] v[1] = "undefined" -> "undefined"
      [] v[1] = "null" -> "null"
      [] v[1] = "accessor" -> "<accessor>"
      [] v[1] = "empty" -> "<empty>"
      [] OTHER -> "[object " \o v[2] \o "]"

-----------------------------------------------------------------------------
(* Heap objects that can be thrown.  An exception is the thrown value with  *)
(* the property storage of the object and of its prototype (own first);    *)
(* for a thrown primitive both storages are empty.                         *)

Props == {"name", "message", "constructor"}

NoStorage == [p \in Props |-> Empty]

\* Object::get(): the ordinary, possibly side-effecting [[Get]] of "name" on
\* the constructor objects of the model: a named function, a function whose
\* name getter throws (empty Value) and an object without a name.
get(object, property) ==
    CASE object = Obj("TypeError") -> Str("TypeError")
      [] object = Obj("F") -> Str("F")
      [] object = Obj("Throwing") -> Empty
      [] OTHER -> Undefined

OwnStorages ==
    { [p \in Props |-> CASE p = "name" -> n [] p = "message" -> m [] OTHER -> c] :
        n \in {Empty, Accessor, Str("OwnName")},
        m \in {Empty, Accessor, Str("bad")},
        c \in {Empty, Str("notobject"), Obj("F"), Obj("Throwing")} }

ProtoStorages ==
    { [p \in Props |-> CASE p = "name" -> n [] p = "message" -> m [] OTHER -> c] :
        n \in {Empty, Str("TypeError")},
        m \in {Empty, Str("")},
        c \in {Empty, Obj("TypeError")} }

ThrownObjects ==
    { [value |-> Obj("Error"), own |-> o, proto |-> p] :
        o \in OwnStorages, p \in ProtoStorages }

ThrownPrimitives ==
    { [value |-> v, own |-> NoStorage, proto |-> NoStorage] :
        v \in {Undefined, Str("boom"), Num("1")} }

Exceptions == ThrownObjects \cup ThrownPrimitives

\* new TypeError("bad"): own message, everything else on TypeError.prototype
TypeErrorBad ==
    [value |-> Obj("Error"),
     own |-> [NoStorage EXCEPT !["message"] = Str("bad")],
     proto |-> [name |-> Str("TypeError"), message |-> Str(""),
                constructor |-> Obj("TypeError")]]

\* the exceptions thrown by the scripts of Spec: new TypeError("bad") and a
\* string
SomeExceptions ==
    { TypeErrorBad,
      [value |-> Str("boom"), own |-> NoStorage, proto |-> NoStorage] }

\* Mutant: looks at the object's own storage only.
get_own_without_side_effects(exc, property) == exc.own[property]

\* Object::get_without_side_effects(): storage_get() on the object, then on
\* each prototype, never calling a getter; empty when no storage has it.
get_without_side_effects(exc, property) ==
    IF ~is_empty(exc.own[property]) THEN exc.own[property]
    ELSE exc.proto[property]

-----------------------------------------------------------------------------
(* JsonObject: the error description and the report *)

NoError == [phase |-> None, type |-> None, details |-> None]

NoResult == [harness_error |-> None, harness_file |-> None,
             error |-> None, output |-> None]

set(object, key, value) == [object EXCEPT ![key] = Some(value)]

has(object, key) == Has(object[key])

\* Mutant: the message is only looked at when the name was usable.
run_program_error_nested(exc) ==
    LET e0 == set(NoError, "phase", "runtime")
        e1 == IF is_object(exc.value)
              THEN LET name == get_without_side_effects(exc, "name")
                       message == get_without_side_effects(exc, "message")
                   IN  IF ~is_empty(name) /\ ~is_accessor(name)
                       THEN LET e == set(e0, "type", to_string_without_side_effects(name))
                            IN  IF ~is_empty(message) /\ ~is_accessor(message)
                                THEN set(e, "details", to_string_without_side_effects(message))
                                ELSE e
                       ELSE e0
              ELSE e0
    IN  IF ~has(e1, "type")
        THEN set(e1, "type", to_string_without_side_effects(exc.value))
        ELSE e1

\* main.cpp:69-98  the error object run_program() builds for vm.exception()
run_program_error(exc) ==
    LET e0 == set(NoError, "phase", "runtime")
        e2 == IF is_object(exc.value)
              THEN LET name == get_without_side_effects(exc, "name")
                       e1 == IF ~is_empty(name) /\ ~is_accessor(name)
                             THEN set(e0, "type", to_string_without_side_effects(name))
                             ELSE LET constructor == get_without_side_effects(exc, "constructor")
                                  IN  IF is_object(constructor)
                                      THEN LET name2 == get(constructor, "name")
                                           IN  IF ~is_empty(name2)
                                               THEN set(e0, "type",
                                                        to_string_without_side_effects(name2))
                                               ELSE e0
                                      ELSE e0
                       message == get_without_side_effects(exc, "message")
                   IN  IF ~is_empty(message) /\ ~is_accessor(message)
                       THEN set(e1, "details", to_string_without_side_effects(message))
                       ELSE e1
              ELSE e0
    IN  IF ~has(e2, "type")
        THEN set(e2, "type", to_string_without_side_effects(exc.value))
        ELSE e2

-----------------------------------------------------------------------------
(* Sources: files, parser diagnostics *)

\* the command lines: the first n of these paths, for each n
HarnessPaths == <<"assert.js", "sta.js", "doneprintHandle.js", "propertyHelper.js">>

OsErrors == {"No such file or directory"}

HarnessLists == { SubSeq(HarnessPaths, 1, n) : n \in 0..MaxHarness }

Diagnostics ==
    { [message |-> "Unexpected token", line |-> "1", column |-> "10"],
      [message |-> "Unexpected end of input", line |-> "2", column |-> "1"] }

DiagnosticLists == UNION { [1..n -> Diagnostics] : n \in 0..MaxDiags }

\* Parser::Error::to_string()
error_to_string(d) ==
    d.message \o " (line: " \o d.line \o ", column: " \o d.column \o ")"

\* main.cpp:36  String::formatted("Failed to open '{}': {}", path, error)
open_error_details(path, error_string) ==
    "Failed to open '" \o path \o "': " \o error_string

\* The outcomes of read_file(): a named file can fail to open or fail while
\* being read; standard input is never opened, so it can only fail to read.
ReadOutcomes(path) ==
    IF Has(path) THEN {"ok", "open_fail", "read_fail"} ELSE {"ok", "read_fail"}

\* main.cpp:27-41  read_file(): the error it returns, None when it returns a
\* buffer.  read_all() hands back what it read before a read error and the
\* error is not looked at, so only a failed open() is an error.
read_file(path, outcome, error_string) ==
    IF ~Has(path) THEN None
    ELSE IF outcome = "open_fail"
         THEN Some(set(NoError, "details", open_error_details(Get(path), error_string)))
         ELSE None

\* Mutant: reports the last diagnostic.
parse_program_last(diags) ==
    IF Len(diags) > 0
    THEN Some(set(set(set(NoError, "phase", "parse"), "type", "SyntaxError"),
                  "details", error_to_string(diags[Len(diags)])))
    ELSE None

\* main.cpp:43-55  parse_program(): the error it returns, None for a program
parse_program(diags) ==
    IF Len(diags) > 0
    THEN Some(set(set(set(NoError, "phase", "parse"), "type", "SyntaxError"),
                  "details", error_to_string(diags[1])))
    ELSE None

-----------------------------------------------------------------------------
(* Byte streams.  A stream is a sequence of chunks <<source, call, length>>: *)
(* `length` bytes written by print() call number `call` of source `source`. *)

RECURSIVE Total(_)
Total(chunks) ==
    IF chunks = <<>> THEN 0 ELSE chunks[1][3] + Total(Tail(chunks))

\* the first n bytes of a stream
RECURSIVE Take(_, _)
Take(chunks, n) ==
    IF n <= 0 \/ chunks = <<>> THEN <<>>
    ELSE IF chunks[1][3] <= n
         THEN <<chunks[1]>> \o Take(Tail(chunks), n - chunks[1][3])
         ELSE << <<chunks[1][1], chunks[1][2], n>> >>

\* what is left after the first n bytes
RECURSIVE Drop(_, _)
Drop(chunks, n) ==
    IF chunks = <<>> THEN <<>>
    ELSE IF n <= 0 THEN chunks
    ELSE IF chunks[1][3] <= n THEN Drop(Tail(chunks), n - chunks[1][3])
    ELSE << <<chunks[1][1], chunks[1][2], chunks[1][3] - n>> >> \o Tail(chunks)

Min(a, b) == IF a < b THEN a ELSE b

\* lengths of the strings print() is called with
StringLengths == {0, BUFFER_SIZE - 1, PipeCapacity - 1}

-----------------------------------------------------------------------------
(* The runner: main() *)

NumSources == Len(harness_files) + 1

\* the path run_it() is called with: a harness file, or the null String
-----------------------------------------------------------------------------
(* The realms: the cells a GlobalObject and its $262 object consist of *)

GlobalNames == {"x", "y"}

\* the global variables of a realm the scripts of the model define
NoBindings == [name \in GlobalNames |-> None]

\* a native function object: its name and the global object it was made for
NativeFunction(name, global_object) == <<"function", name, global_object>>

\* GlobalObject.cpp:15-25  the cell of a GlobalObject at address self
GlobalObjectCell(self, host) ==
    [kind |-> "GlobalObject", global_object |-> self, m_262 |-> host,
     properties |-> [name \in {"print", "$262"} |->
                       IF name = "print" THEN NativeFunction("print", self)
                       ELSE Obj(host)],
     bindings |-> NoBindings]

\* $262Object.cpp:25-42  the cell of a $262Object made for global_object
HostCell(self, global_object, agent, is_htmldda) ==
    [kind |-> "$262Object", global_object |-> global_object,
     m_agent |-> agent, m_is_htmldda |-> is_htmldda,
     properties |->
       [clearKeptObjects |-> NativeFunction("clearKeptObjects", global_object),
        createRealm |-> NativeFunction("createRealm", global_object),
        detachArrayBuffer |-> NativeFunction("detachArrayBuffer", global_object),
        evalScript |-> NativeFunction("evalScript", global_object),
        agent |-> Obj(agent),
        gc |-> NativeFunction("gc", global_object),
        global |-> Obj(global_object),
        IsHTMLDDA |-> Obj(is_htmldda)]]

\* AgentObject.cpp:18-28
AgentCell(self, global_object) ==
    [kind |-> "AgentObject", global_object |-> global_object,
     properties |-> [monotonicNow |-> NativeFunction("monotonicNow", global_object),
                     sleep |-> NativeFunction("sleep", global_object)]]

\* IsHTMLDDA.cpp:10-14
IsHTMLDDACell(self, global_object) ==
    [kind |-> "IsHTMLDDA", global_object |-> global_object]

\* GlobalObject.cpp:15-25 and $262Object.cpp:25-42: a GlobalObject is
\* allocated and initialised; it allocates its $262Object, whose initialize()
\* allocates the AgentObject and the IsHTMLDDA.  heap().allocate() returns a
\* cell no live object has: the next address.
initialize_global_object(cells) ==
    LET self == Len(cells) + 1
        host == self + 1
        agent == self + 2
        is_htmldda == self + 3
    IN  [heap |-> cells \o <<GlobalObjectCell(self, host),
                            HostCell(host, self, agent, is_htmldda),
                            AgentCell(agent, self),
                            IsHTMLDDACell(is_htmldda, self)>>,
         global_object |-> self]

\* main.cpp:159-163  JS::Interpreter::create<GlobalObject>(*vm)
create_interpreter(cells) == initialize_global_object(cells)

PathOf(i) == IF i <= Len(harness_files) THEN Some(harness_files[i]) ELSE None

NotRun == [io |-> "none", parsed |-> FALSE, diags |-> <<>>, executed |-> FALSE,
           thrown |-> None, returned |-> FALSE, error |-> None]

Init ==
    /\ harness_files \in HarnessLists
    /\ pc = "dup"
    /\ exit_code = None
    /\ stderr = <<>>
    /\ fd1 = "tty"
    /\ nonblock = FALSE
    /\ stdio = <<>>
    /\ pipe = <<>>
    /\ written = <<>>
    /\ nread = 0
    /\ buffer = <<>>
    /\ result_object = NoResult
    /\ cur = 0
    /\ trace = [i \in 1..NumSources |-> NotRun]
    /\ steps = 0
    /\ tty = <<>>
    /\ buffers = <<>>
    /\ calls = 0
    /\ last = None
    /\ vm_heap = <<>>
    /\ clock = 0
    /\ nows = <<>>

\* perror(call); return 1;
ReturnOne(call) ==
    /\ pc' = "done"
    /\ stderr' = Append(stderr, call)
    /\ exit_code' = Some(1)

\* main.cpp:134-138  saved_stdout = dup(STDOUT_FILENO)
Dup ==
    /\ pc = "dup"
    /\ \E ok \in BOOLEAN :
         IF ok THEN pc' = "pipe" /\ UNCHANGED <<exit_code, stderr>> ELSE ReturnOne("dup")
    /\ UNCHANGED <<harness_files, fd1, nonblock, stdio, pipe, written, nread,
                   buffer, result_object, cur, trace, steps, tty, hostVars>>

\* main.cpp:140-148  pipe(stdout_pipe), then O_NONBLOCK on the read end
\* (fcntl() on a descriptor that was just created does not fail)
Pipe ==
    /\ pc = "pipe"
    /\ \E ok \in BOOLEAN :
         IF ok
         THEN pc' = "dup2" /\ nonblock' = TRUE /\ UNCHANGED <<exit_code, stderr>>
         ELSE ReturnOne("pipe") /\ UNCHANGED nonblock
    /\ UNCHANGED <<harness_files, fd1, stdio, pipe, written, nread, buffer,
                   result_object, cur, trace, steps, tty, hostVars>>

\* main.cpp:150-153  dup2(stdout_pipe[1], STDOUT_FILENO)
Dup2Capture ==
    /\ pc = "dup2"
    /\ \E ok \in BOOLEAN :
         IF ok
         THEN pc' = "close_write" /\ fd1' = "pipe" /\ UNCHANGED <<exit_code, stderr>>
         ELSE ReturnOne("dup2") /\ UNCHANGED fd1
    /\ UNCHANGED <<harness_files, nonblock, stdio, pipe, written, nread, buffer,
                   result_object, cur, trace, steps, tty, hostVars>>

\* main.cpp:154-173  close(stdout_pipe[1]); then the VM and the interpreters
\* are created and the first source (harness_files[0], or standard input
\* when there is no harness file) is handed to run_it()
CloseWriteEnd ==
    /\ pc = "close_write"
    /\ \E ok \in BOOLEAN :
         IF ok
         THEN /\ pc' = "read"
              /\ cur' = 1
              /\ vm_heap' = create_interpreter(vm_heap).heap
              /\ UNCHANGED <<exit_code, stderr>>
         ELSE ReturnOne("close") /\ UNCHANGED <<cur, vm_heap>>
    /\ UNCHANGED <<harness_files, fd1, nonblock, stdio, pipe, written, nread,
                   buffer, result_object, trace, steps, tty, buffers, calls, last,
                   clock, nows>>

\* Mutant: the loop goes on after a failed harness file (no break).
AfterSourceNoBreak(i, result) ==
    IF i < NumSources THEN [pc |-> "read", cur |-> i + 1]
    ELSE [pc |-> "flush", cur |-> i]

\* main.cpp:173-186  where main() goes when run_it() returned `result` for
\* source i: the next harness file, the main source, or the tear-down
AfterSource(i, result) ==
    IF i <= Len(harness_files)
    THEN IF Has(result)
         THEN [pc |-> "flush", cur |-> i]                \* break; has("harness_error")
         ELSE [pc |-> "read", cur |-> i + 1]
    ELSE [pc |-> "flush", cur |-> i]

\* main.cpp:175-179, 184-185  what main() stores when run_it() returned
StoreResult(object, i, result) ==
    IF ~Has(result) THEN object
    ELSE IF i <= Len(harness_files)
         THEN set(set(set(object, "harness_error", TRUE),
                      "harness_file", harness_files[i]),
                  "error", Get(result))
         ELSE set(object, "error", Get(result))

\* run_it(path) returns `result` to main()
Returned(i, result, entry) ==
    /\ trace' = [trace EXCEPT ![i] = [entry EXCEPT !.returned = TRUE, !.error = result]]
    /\ result_object' = StoreResult(result_object, i, result)
    /\ pc' = AfterSource(i, result).pc
    /\ cur' = AfterSource(i, result).cur

\* main.cpp:105-108  run_script(): read_file(path)
ReadSource ==
    /\ pc = "read"
    /\ \E outcome \in ReadOutcomes(PathOf(cur)), error_string \in OsErrors :
         LET result == read_file(PathOf(cur), outcome, error_string)
             entry == [trace[cur] EXCEPT !.io = outcome]
         IN  IF Has(result)
             THEN Returned(cur, result, entry)
             ELSE /\ trace' = [trace EXCEPT ![cur] = entry]
                  /\ pc' = "parse"
                  /\ UNCHANGED <<result_object, cur>>
    /\ UNCHANGED <<harness_files, exit_code, stderr, fd1, nonblock, stdio, pipe, written,
                   nread, buffer, steps, tty, hostVars>>

\* main.cpp:110-113  run_script(): parse_program(source)
ParseSource ==
    /\ pc = "parse"
    /\ \E diags \in DiagnosticLists :
         LET result == parse_program(diags)
             entry == [trace[cur] EXCEPT !.parsed = TRUE, !.diags = diags]
         IN  IF Has(result)
             THEN Returned(cur, result, entry)
             ELSE /\ trace' = [trace EXCEPT ![cur] = [entry EXCEPT !.executed = TRUE]]
                  /\ pc' = "exec"
                  /\ UNCHANGED <<result_object, cur>>
    /\ UNCHANGED <<harness_files, exit_code, stderr, fd1, nonblock, stdio, pipe, written,
                   nread, buffer, steps, tty, hostVars>>

\* Mutant: the line is written without going through stdout.
print_output_lost(string_length) == <<>>

\* GlobalObject.cpp:36  outln("{}", string): the string and a newline
print_output(string_length) == << <<cur, steps + 1, string_length + 1>> >>

\* GlobalObject.cpp:33-38  print(): the running script calls the print hook;
\* when to_string() of the argument throws (TRY_OR_DISCARD) nothing is
\* written
PrintHook ==
    /\ pc = "exec"
    /\ steps < MaxSteps
    /\ \/ \E n \in StringLengths :
            /\ stdio' = stdio \o print_output(n)
            /\ written' = written \o print_output(n)
            /\ steps' = steps + 1
       \/ UNCHANGED <<stdio, written, steps>>
    /\ UNCHANGED <<harness_files, pc, exit_code, stderr, fd1, nonblock, pipe, nread,
                   buffer, result_object, cur, trace, tty, hostVars>>

\* stdout is a fully buffered FILE on a pipe: the C library writes the buffer
\* to fd 1 whenever it is full; write() on the pipe blocks for good once the
\* pipe is full, as nothing reads it before main.cpp:189
StdioWrite ==
    /\ pc = "exec"
    /\ stdio # <<>>
    /\ IF Total(pipe) + Total(stdio) <= PipeCapacity
       THEN pipe' = pipe \o stdio /\ stdio' = <<>> /\ UNCHANGED pc
       ELSE pc' = "blocked" /\ UNCHANGED <<pipe, stdio>>
    /\ UNCHANGED <<harness_files, exit_code, stderr, fd1, nonblock, written, nread,
                   buffer, result_object, cur, trace, steps, tty, hostVars>>

\* main.cpp:69-98  the program ended with vm.exception() set
ThrowFrom(exceptions) ==
    /\ pc = "exec"
    /\ \E exc \in exceptions :
         Returned(cur, Some(run_program_error(exc)),
                  [trace[cur] EXCEPT !.thrown = Some(exc)])
    /\ UNCHANGED <<harness_files, exit_code, stderr, fd1, nonblock, stdio, pipe, written,
                   nread, buffer, steps, tty, hostVars>>

\* the uncaught exceptions of the scripts of Spec
Throw == ThrowFrom(SomeExceptions)

\* any uncaught exception (SpecClassify)
ThrowAny == ThrowFrom(Exceptions)

\* main.cpp:99  the program ended without an exception
Complete ==
    /\ pc = "exec"
    /\ Returned(cur, None, trace[cur])
    /\ UNCHANGED <<harness_files, exit_code, stderr, fd1, nonblock, stdio, pipe, written,
                   nread, buffer, steps, tty, hostVars>>

\* Mutant: the pipe is read without flushing stdout first.
FlushedUnflushed(in_pipe, in_stdio) == in_pipe

\* main.cpp:188  fflush(stdout): what the pipe holds afterwards
Flushed(in_pipe, in_stdio) == in_pipe \o in_stdio

\* main.cpp:188-189  fflush(stdout); nread = read(stdout_pipe[0], buffer,
\* BUFFER_SIZE).  The write end is still open as fd 1, so read() of an empty
\* pipe fails with EAGAIN when O_NONBLOCK is set and blocks when it is not.
FlushAndRead ==
    /\ pc = "flush"
    /\ LET available == Flushed(pipe, stdio)
       IN  IF Total(pipe) + Total(stdio) > PipeCapacity
           THEN pc' = "blocked" /\ UNCHANGED <<stdio, pipe, nread, buffer>>
           ELSE IF Total(available) = 0
                THEN IF nonblock
                     THEN /\ pc' = "restore"
                          /\ nread' = -1
                          /\ UNCHANGED <<stdio, pipe, buffer>>
                     ELSE pc' = "blocked" /\ UNCHANGED <<stdio, pipe, nread, buffer>>
                ELSE /\ pc' = "restore"
                     /\ nread' = Min(Total(available), BUFFER_SIZE)
                     /\ buffer' = Take(available, BUFFER_SIZE)
                     /\ pipe' = Drop(available, BUFFER_SIZE)
                     /\ stdio' = <<>>
    /\ UNCHANGED <<harness_files, exit_code, stderr, fd1, nonblock, written,
                   result_object, cur, trace, steps, tty, hostVars>>

\* Mutant: main() goes on without having restored stdout.
Dup2RestoreForgotten ==
    /\ pc = "restore"
    /\ pc' = "close_read"
    /\ UNCHANGED <<harness_files, exit_code, stderr, fd1, nonblock, stdio, pipe, written,
                   nread, buffer, result_object, cur, trace, steps, tty, hostVars>>

\* main.cpp:190-193  dup2(saved_stdout, STDOUT_FILENO)
Dup2Restore ==
    /\ pc = "restore"
    /\ \E ok \in BOOLEAN :
         IF ok
         THEN pc' = "close_read" /\ fd1' = "tty" /\ UNCHANGED <<exit_code, stderr>>
         ELSE ReturnOne("dup2") /\ UNCHANGED fd1
    /\ UNCHANGED <<harness_files, nonblock, stdio, pipe, written, nread, buffer,
                   result_object, cur, trace, steps, tty, hostVars>>

\* main.cpp:194-197  close(stdout_pipe[0])
CloseReadEnd ==
    /\ pc = "close_read"
    /\ \E ok \in BOOLEAN :
         IF ok THEN pc' = "emit" /\ UNCHANGED <<exit_code, stderr>> ELSE ReturnOne("close")
    /\ UNCHANGED <<harness_files, fd1, nonblock, stdio, pipe, written, nread,
                   buffer, result_object, cur, trace, steps, tty, hostVars>>

\* Mutant: the output member is always set.
WithOutputAlways(object, count, bytes) == set(object, "output", Take(bytes, count))

\* main.cpp:199-200  result_object.set("output", String { buffer, nread })
WithOutput(object, count, bytes) ==
    IF count > 0 THEN set(object, "output", Take(bytes, count)) ELSE object

\* Mutant: the exit status tells whether the report holds an error.
EmitFailing ==
    /\ pc = "emit"
    /\ result_object' = WithOutput(result_object, nread, buffer)
    /\ tty' = Append(tty, result_object')
    /\ pc' = "done"
    /\ exit_code' = IF has(result_object, "error") THEN Some(1) ELSE Some(0)
    /\ UNCHANGED <<harness_files, stderr, fd1, nonblock, stdio, pipe, written, nread,
                   buffer, cur, trace, steps, hostVars>>

\* main.cpp:199-203  the report goes to stdout, which the exit flushes to
\* whatever fd 1 refers to; return 0
Emit ==
    /\ pc = "emit"
    /\ result_object' = WithOutput(result_object, nread, buffer)
    /\ IF fd1 = "tty"
       THEN tty' = Append(tty, result_object') /\ UNCHANGED pipe
       ELSE pipe' = Append(pipe, <<0, 0, 1>>) /\ UNCHANGED tty
    /\ pc' = "done"
    /\ exit_code' = Some(0)
    /\ UNCHANGED <<harness_files, stderr, fd1, nonblock, stdio, written, nread, buffer,
                   cur, trace, steps, hostVars>>

Next ==
    \/ Dup
    \/ Pipe
    \/ Dup2Capture
    \/ CloseWriteEnd
    \/ ReadSource
    \/ ParseSource
    \/ PrintHook
    \/ StdioWrite
    \/ Throw
    \/ Complete
    \/ FlushAndRead
    \/ Dup2Restore
    \/ CloseReadEnd
    \/ Emit

Spec == Init /\ [][Next]_vars

(* The runner with scripts that define global variables *)

\* main.cpp:62, 159-163  interpreter.global_object(): the GlobalObject the
\* interpreter was created with, the first cell of the heap
interpreter_global_object(cells) ==
    CHOOSE self \in 1..Len(cells) :
        /\ cells[self].kind = "GlobalObject"
        /\ \A other \in 1..(self - 1) : cells[other].kind # "GlobalObject"

\* a script sets the global variable `name` of a realm
set_binding(cells, global_object, name, value) ==
    [cells EXCEPT ![global_object].bindings[name] = Some(value)]

\* Mutant: every source is run in a realm of its own, made when it starts to
\* write.
SetGlobalInOwnRealm ==
    /\ pc = "exec"
    /\ \E name \in GlobalNames :
         LET fresh == create_interpreter(<<>>).heap
             global_object == interpreter_global_object(fresh)
         IN  /\ vm_heap' = set_binding(fresh, global_object, name, Num(cur))
             /\ last' = Some([function |-> "global",
                              arguments |-> <<name, Num(cur)>>,
                              completion |-> <<"normal", Undefined>>,
                              before |-> vm_heap])
    /\ UNCHANGED <<runnerVars, buffers, calls, clock, nows>>

\* main.cpp:62  interpreter.run(interpreter.global_object(), program): the
\* running source sets a global variable; the value tells which source did
SetGlobal ==
    /\ pc = "exec"
    /\ \E name \in GlobalNames :
         LET global_object == interpreter_global_object(vm_heap)
         IN  /\ vm_heap' = set_binding(vm_heap, global_object, name, Num(cur))
             /\ last' = Some([function |-> "global",
                              arguments |-> <<name, Num(cur)>>,
                              completion |-> <<"normal", Undefined>>,
                              before |-> vm_heap])
    /\ UNCHANGED <<runnerVars, buffers, calls, clock, nows>>

NextSources ==
    \/ Dup
    \/ Pipe
    \/ Dup2Capture
    \/ CloseWriteEnd
    \/ ReadSource
    \/ ParseSource
    \/ SetGlobal
    \/ Throw
    \/ Complete
    \/ FlushAndRead
    \/ Dup2Restore
    \/ CloseReadEnd
    \/ Emit

SpecSources == Init /\ [][NextSources]_vars

(* The runner with scripts that print nothing and throw anything *)

NextClassify ==
    \/ Dup
    \/ Pipe
    \/ Dup2Capture
    \/ CloseWriteEnd
    \/ ReadSource
    \/ ParseSource
    \/ ThrowAny
    \/ Complete
    \/ FlushAndRead
    \/ Dup2Restore
    \/ CloseReadEnd
    \/ Emit

SpecClassify == Init /\ [][NextClassify]_vars

-----------------------------------------------------------------------------
(* The host API: $262 *)

BufferIds == {"ab1", "ab2"}

\* The detach keys of the ArrayBuffers.  A buffer made by a script has the
\* key undefined; an embedder sets others with ArrayBuffer::set_detach_key().
DetachKeys == {Undefined, Num("+0"), Num("-0"), Num("NaN")}

\* the arguments a script passes to $262.detachArrayBuffer
DetachArguments ==
    LET first == {Obj("ab1"), Obj("ab2"), Obj("plain"), Undefined, Str("ab1")}
        second == {Undefined, Num("+0"), Num("-0"), Num("NaN"), Num("1")}
    IN  {<<>>} \cup { <<a>> : a \in first }
               \cup { <<a, k>> : a \in first, k \in second }

\* vm.argument(i): undefined when the call has fewer arguments
argument(args, i) == IF i < Len(args) THEN args[i + 1] ELSE Undefined

is_nan(v) == v = Num("NaN")
is_positive_zero(v) == v = Num("+0")
is_negative_zero(v) == v = Num("-0")

\* lhs.as_double() == rhs.as_double(): IEEE 754 comparison of two numbers
double_equals(lhs, rhs) ==
    /\ ~is_nan(lhs)
    /\ ~is_nan(rhs)
    /\ \/ lhs[2] = rhs[2]
       \/ lhs[2] \in {"+0", "-0"} /\ rhs[2] \in {"+0", "-0"}

\* Mutant: strict equality (===) instead of SameValue.
is_strictly_equal(lhs, rhs) ==
    IF lhs[1] # rhs[1] THEN FALSE
    ELSE IF lhs[1] = "number" THEN double_equals(lhs, rhs)
    ELSE lhs[2] = rhs[2]

\* $262Object.cpp:71  JS::same_value(): 7.2.11 SameValue
same_value(lhs, rhs) ==
    IF lhs[1] # rhs[1] THEN FALSE
    ELSE IF lhs[1] = "number"
         THEN IF is_nan(lhs) /\ is_nan(rhs) THEN TRUE
              ELSE IF is_positive_zero(lhs) /\ is_negative_zero(rhs) THEN FALSE
              ELSE IF is_negative_zero(lhs) /\ is_positive_zero(rhs) THEN FALSE
              ELSE double_equals(lhs, rhs)
         ELSE lhs[2] = rhs[2]

\* is<JS::ArrayBuffer>(value.as_object())
is_array_buffer(value, heap) == is_object(value) /\ value[2] \in DOMAIN heap

NormalCompletion(value) == <<"normal", value>>
ThrowTypeError == <<"throw", Obj("TypeError")>>

\* Mutant: an already detached buffer is refused.
detach_array_buffer_once(args, heap) ==
    LET array_buffer == argument(args, 0)
    IN  IF ~is_array_buffer(array_buffer, heap)
        THEN [completion |-> ThrowTypeError, heap |-> heap]
        ELSE IF \/ ~same_value(heap[array_buffer[2]].detach_key, argument(args, 1))
                \/ heap[array_buffer[2]].detached
             THEN [completion |-> ThrowTypeError, heap |-> heap]
             ELSE [completion |-> NormalCompletion(Null),
                   heap |-> [heap EXCEPT ![array_buffer[2]].detached = TRUE]]

\* $262Object.cpp:65-75  $262.detachArrayBuffer(buffer, key): the completion
\* and the heap afterwards.  ArrayBuffer::detach_buffer() drops the storage
\* and leaves the detach key as it is.
detach_array_buffer(args, heap) ==
    LET array_buffer == argument(args, 0)
    IN  IF ~is_array_buffer(array_buffer, heap)
        THEN [completion |-> ThrowTypeError, heap |-> heap]
        ELSE IF ~same_value(heap[array_buffer[2]].detach_key, argument(args, 1))
             THEN [completion |-> ThrowTypeError, heap |-> heap]
             ELSE [completion |-> NormalCompletion(Null),
                   heap |-> [heap EXCEPT ![array_buffer[2]].detached = TRUE]]

\* the runner while the main source executes, nothing printed yet
InitHost ==
    /\ harness_files = <<>>
    /\ pc = "exec"
    /\ exit_code = None
    /\ stderr = <<>>
    /\ fd1 = "pipe"
    /\ nonblock = TRUE
    /\ stdio = <<>>
    /\ pipe = <<>>
    /\ written = <<>>
    /\ nread = 0
    /\ buffer = <<>>
    /\ result_object = NoResult
    /\ cur = 1
    /\ trace = [i \in {1} |-> [NotRun EXCEPT !.io = "ok", !.parsed = TRUE,
                                            !.executed = TRUE]]
    /\ steps = 0
    /\ tty = <<>>
    /\ buffers \in [BufferIds -> [detach_key : DetachKeys, detached : {FALSE}]]
    /\ calls = 0
    /\ last = None
    /\ vm_heap = create_interpreter(<<>>).heap
    /\ clock = 0
    /\ nows = <<>>

\* the running script calls $262.detachArrayBuffer(...)
DetachArrayBuffer ==
    /\ pc = "exec"
    /\ calls < MaxCalls
    /\ \E args \in DetachArguments :
         LET r == detach_array_buffer(args, buffers)
         IN  /\ buffers' = r.heap
             /\ last' = Some([function |-> "detachArrayBuffer",
                              arguments |-> args,
                              completion |-> r.completion,
                              before |-> buffers])
    /\ calls' = calls + 1
    /\ UNCHANGED <<runnerVars, vm_heap, clock, nows>>

\* the arguments a script passes to $262.IsHTMLDDA
HTMLDDAArguments ==
    LET values == {Str(""), Str("x"), Num("+0"), Undefined, Null, Obj("plain")}
    IN  {<<>>} \cup { <<a>> : a \in values }
               \cup { <<a, b>> : a \in {Str(""), Str("x"), Num("+0")},
                                 b \in {Str(""), Null} }

\* value.as_string().string().is_empty()
is_empty_string(value) == value[2] = ""

ThrowNotAConstructor(name) == <<"throw", Obj("TypeError: " \o name \o " is not a constructor")>>

\* Mutant: null for every argument that is loosely equal to the empty string
\* (the empty string and the number 0).
is_htmldda_call_loose(args) ==
    IF Len(args) = 0 THEN NormalCompletion(Null)
    ELSE IF argument(args, 0) \in {Str(""), Num("+0")} THEN NormalCompletion(Null)
    ELSE NormalCompletion(Undefined)

\* IsHTMLDDA.cpp:16-28  IsHTMLDDA::call()
is_htmldda_call(args) ==
    IF Len(args) = 0 THEN NormalCompletion(Null)
    ELSE IF is_string(argument(args, 0)) /\ is_empty_string(argument(args, 0))
         THEN NormalCompletion(Null)
         ELSE NormalCompletion(Undefined)

\* IsHTMLDDA.cpp:30-36  IsHTMLDDA::construct()
is_htmldda_construct(args) == ThrowNotAConstructor("IsHTMLDDA")

\* the running script calls $262.IsHTMLDDA(...)
CallIsHTMLDDA ==
    /\ pc = "exec"
    /\ calls < MaxCalls
    /\ \E args \in HTMLDDAArguments :
         last' = Some([function |-> "IsHTMLDDA",
                       arguments |-> args,
                       completion |-> is_htmldda_call(args),
                       before |-> buffers])
    /\ calls' = calls + 1
    /\ UNCHANGED <<runnerVars, buffers, vm_heap, clock, nows>>

\* the running script evaluates new $262.IsHTMLDDA(...)
ConstructIsHTMLDDA ==
    /\ pc = "exec"
    /\ calls < MaxCalls
    /\ \E args \in HTMLDDAArguments :
         last' = Some([function |-> "new IsHTMLDDA",
                       arguments |-> args,
                       completion |-> is_htmldda_construct(args),
                       before |-> buffers])
    /\ calls' = calls + 1
    /\ UNCHANGED <<runnerVars, buffers, vm_heap, clock, nows>>

NextHost ==
    \/ DetachArrayBuffer
    \/ CallIsHTMLDDA
    \/ ConstructIsHTMLDDA

SpecHost == InitHost /\ [][NextHost]_vars

-----------------------------------------------------------------------------
(* The host API: realms.  SpecRealm: scripts call createRealm and evalScript *)
(* of any $262 object and assign to its properties.                          *)

MaxRealms == 3          \* GlobalObjects in the heap, the first one included

Symbol == <<"symbol", "Symbol()">>

global_objects(cells) == { self \in 1..Len(cells) : cells[self].kind = "GlobalObject" }
host_objects(cells) == { self \in 1..Len(cells) : cells[self].kind = "$262Object" }

\* Mutant: no realm is made, the $262 object of the first realm is returned.
create_realm_unallocated(cells) ==
    [completion |-> NormalCompletion(Obj(cells[interpreter_global_object(cells)].m_262)),
     heap |-> cells]

\* $262Object.cpp:57-62  $262.createRealm(): the completion and the heap
\* afterwards
create_realm(cells) ==
    LET realm == initialize_global_object(cells)
    IN  [completion |-> NormalCompletion(Obj(realm.heap[realm.global_object].m_262)),
         heap |-> realm.heap]

\* the arguments a script passes to evalScript: a source text, nothing, a
\* Symbol, an object whose toString() throws 1, a plain object
EvalArguments ==
    {<<Str("source text")>>, <<>>, <<Symbol>>, <<Obj("thrower")>>, <<Obj("plain")>>}

\* what a nested script does when it is run: it completes or throws
EvalThrown == {Num("1"), Obj("Error"), Undefined}

\* the behaviours of a source text: the parser's diagnostics and, for a
\* text without any, the value the program throws
EvalPrograms ==
    { [diags |-> d, thrown |-> None] : d \in DiagnosticLists }
      \cup { [diags |-> <<>>, thrown |-> Some(v)] : v \in EvalThrown }

\* Value::to_string(global_object): a ThrowCompletionOr<String>
to_string(value) ==
    IF is_string(value) THEN NormalCompletion(value[2])
    ELSE IF value = Undefined THEN NormalCompletion("undefined")
    ELSE IF value[1] = "symbol" THEN ThrowTypeError
    ELSE IF value = Obj("thrower") THEN <<"throw", Num("1")>>
    ELSE NormalCompletion("[object Object]")

\* vm.throw_completion<JS::SyntaxError>(global_object, message)
ThrowSyntaxError(message) == <<"throw", Obj("SyntaxError: " \o message)>>

\* Mutant: the value the nested script threw is wrapped in an Error.
eval_script_wrapping(global_object, args, program) ==
    LET source == to_string(argument(args, 0))
    IN  IF source[1] = "throw"
        THEN [completion |-> source, parsed |-> FALSE, run |-> None]
        ELSE IF Len(program.diags) > 0
             THEN [completion |-> ThrowSyntaxError(error_to_string(program.diags[1])),
                   parsed |-> TRUE, run |-> None]
             ELSE [completion |-> IF Has(program.thrown)
                                  THEN <<"throw", Obj("Error")>>
                                  ELSE NormalCompletion(Undefined),
                   parsed |-> TRUE,
                   run |-> Some([global_object |-> global_object, source |-> source[2]])]

\* $262Object.cpp:77-88  $262.evalScript(sourceText) of the function made for
\* global_object: the completion, whether the parser was reached, and the
\* call of vm.interpreter().run(global_object, program) when it was made
eval_script(global_object, args, program) ==
    LET source == to_string(argument(args, 0))
    IN  IF source[1] = "throw"
        THEN [completion |-> source, parsed |-> FALSE, run |-> None]
        ELSE IF Len(program.diags) > 0
             THEN [completion |-> ThrowSyntaxError(error_to_string(program.diags[1])),
                   parsed |-> TRUE, run |-> None]
             ELSE [completion |-> IF Has(program.thrown)
                                  THEN <<"throw", Get(program.thrown)>>
                                  ELSE NormalCompletion(Undefined),
                   parsed |-> TRUE,
                   run |-> Some([global_object |-> global_object, source |-> source[2]])]

\* the first realm while the main source executes
InitRealm ==
    /\ harness_files = <<>>
    /\ pc = "exec"
    /\ exit_code = None
    /\ stderr = <<>>
    /\ fd1 = "pipe"
    /\ nonblock = TRUE
    /\ stdio = <<>>
    /\ pipe = <<>>
    /\ written = <<>>
    /\ nread = 0
    /\ buffer = <<>>
    /\ result_object = NoResult
    /\ cur = 1
    /\ trace = [i \in {1} |-> [NotRun EXCEPT !.io = "ok", !.parsed = TRUE,
                                            !.executed = TRUE]]
    /\ steps = 0
    /\ tty = <<>>
    /\ buffers = <<>>
    /\ calls = 0
    /\ last = None
    /\ vm_heap = create_interpreter(<<>>).heap
    /\ clock = 0
    /\ nows = <<>>

\* a script running in realm `caller` calls createRealm of a $262 object
CreateRealm ==
    /\ pc = "exec"
    /\ calls < MaxCalls
    /\ Cardinality(global_objects(vm_heap)) < MaxRealms
    /\ \E caller \in global_objects(vm_heap), host \in host_objects(vm_heap) :
         LET r == create_realm(vm_heap)
         IN  /\ vm_heap' = r.heap
             /\ last' = Some([function |-> "createRealm",
                              caller |-> caller,
                              host |-> host,
                              arguments |-> <<>>,
                              completion |-> r.completion,
                              before |-> vm_heap])
    /\ calls' = calls + 1
    /\ UNCHANGED <<runnerVars, buffers, clock, nows>>

\* a script running in realm `caller` calls evalScript of a $262 object; the
\* native function gets the global object it was made for
EvalScript ==
    /\ pc = "exec"
    /\ calls < MaxCalls
    /\ \E caller \in global_objects(vm_heap), host \in host_objects(vm_heap),
          args \in EvalArguments, program \in EvalPrograms :
         LET global_object == vm_heap[host].global_object
             r == eval_script(global_object, args, program)
         IN  last' = Some([function |-> "evalScript",
                           caller |-> caller,
                           host |-> host,
                           arguments |-> args,
                           program |-> program,
                           completion |-> r.completion,
                           parsed |-> r.parsed,
                           run |-> r.run,
                           before |-> vm_heap])
    /\ calls' = calls + 1
    /\ UNCHANGED <<runnerVars, buffers, vm_heap, clock, nows>>

\* the properties of a $262 object a script assigns to
AssignableProperties == {"global", "agent"}

\* $262Object.cpp:32, 38-41  the properties are Writable: host[name] = value
put_property(cells, host, name, value) ==
    [cells EXCEPT ![host].properties[name] = value]

\* a script assigns to a property of a $262 object
AssignProperty ==
    /\ pc = "exec"
    /\ calls < MaxCalls
    /\ \E host \in host_objects(vm_heap), name \in AssignableProperties,
          value \in {Undefined} \cup { Obj(g) : g \in global_objects(vm_heap) } :
         /\ vm_heap' = put_property(vm_heap, host, name, value)
         /\ last' = Some([function |-> "assign",
                          host |-> host,
                          arguments |-> <<name, value>>,
                          completion |-> NormalCompletion(value),
                          before |-> vm_heap])
    /\ calls' = calls + 1
    /\ UNCHANGED <<runnerVars, buffers, clock, nows>>

NextRealm ==
    \/ CreateRealm
    \/ EvalScript
    \/ AssignProperty

SpecRealm == InitRealm /\ [][NextRealm]_vars

-----------------------------------------------------------------------------
(* The host API: $262.agent.  SpecAgent: a script calls monotonicNow and    *)
(* sleep while the system clock runs and is set by its administrator.       *)

MaxClock == 3           \* milliseconds the system clock shows at most

\* 32-bit integers are kept as two 16-bit limbs <<low, high>>, wider ones as
\* three <<low, middle, high>>: the bit pattern, read as unsigned
Limb == 65536

FromNat(n) == <<n % Limb, (n \div Limb) % Limb, 0>>

\* an integral double: its sign and its magnitude
Integer(sign, magnitude) == <<"integer", sign, magnitude>>

\* 0 - bits modulo 2^32
Negate32(bits) ==
    IF bits[1] = 0 THEN <<0, (Limb - bits[2]) % Limb>>
    ELSE <<Limb - bits[1], Limb - 1 - bits[2]>>

\* the sign bit of an i32
IsNegative32(bits) == bits[2] >= Limb \div 2

Magnitude32(bits) == IF IsNegative32(bits) THEN Negate32(bits) ELSE bits

\* bits * 1000 as an unsigned number of three limbs, exact
Times1000(bits) ==
    LET low == bits[1] * 1000
        high == bits[2] * 1000 + low \div Limb
    IN  <<low % Limb, high % Limb, high \div Limb>>

\* AgentObject.cpp:39  Value::to_i32(): 7.1.6 ToInt32, the number modulo 2^32
\* as a signed 32-bit integer; undefined is NaN and gives 0, a Symbol throws
to_i32(value) ==
    IF value[1] = "integer"
    THEN NormalCompletion(IF value[2] = "+" THEN <<value[3][1], value[3][2]>>
                          ELSE Negate32(<<value[3][1], value[3][2]>>))
    ELSE IF value[1] = "symbol" THEN ThrowTypeError
    ELSE NormalCompletion(<<0, 0>>)

\* milliseconds * 1000 does not fit an int
MultiplicationOverflows(milliseconds) ==
    LET exact == Times1000(Magnitude32(milliseconds))
    IN  \/ exact[3] > 0
        \/ exact[2] > Limb \div 2
        \/ exact[2] = Limb \div 2 /\ (exact[1] > 0 \/ ~IsNegative32(milliseconds))

\* AgentObject.cpp:40  the useconds_t that usleep() gets: the int
\* milliseconds * 1000 converted to unsigned.  An int multiplication that
\* overflows is undefined: the build may wrap, saturate or yield nothing.
usleep_arguments(milliseconds) ==
    LET wrapped == <<Times1000(milliseconds)[1], Times1000(milliseconds)[2]>>
    IN  IF MultiplicationOverflows(milliseconds)
        THEN {wrapped, <<0, 0>>, <<Limb - 1, Limb \div 2 - 1>>}
        ELSE {wrapped}

\* AgentObject.cpp:37-42  agent.sleep(ms): the completions it can have and
\* the microseconds the process is blocked for
sleep(args) ==
    LET milliseconds == to_i32(argument(args, 0))
    IN  IF milliseconds[1] = "throw"
        THEN { [completion |-> milliseconds, milliseconds |-> None, blocked |-> <<0, 0>>] }
        ELSE { [completion |-> NormalCompletion(Undefined),
                milliseconds |-> Some(milliseconds[2]),
                blocked |-> usec] : usec \in usleep_arguments(milliseconds[2]) }

\* the arguments a script passes to agent.sleep: nothing, a Symbol, 0, 1, 50,
\* -1, -50, 2147483, 2147484, 2^31 - 1, -2^31, 2^32 + 1
SleepArguments ==
    {<<>>, <<Symbol>>}
      \cup { <<Integer("+", FromNat(n))>> : n \in {0, 1, 50, 2147483, 2147484, 2147483647} }
      \cup { <<Integer("-", FromNat(n))>> : n \in {1, 50} }
      \cup { <<Integer("-", <<0, Limb \div 2, 0>>)>>, <<Integer("+", <<1, 0, 1>>)>> }

\* the system clock goes on
ClockAdvances ==
    /\ clock < MaxClock
    /\ clock' = clock + 1
    /\ UNCHANGED <<runnerVars, buffers, calls, last, vm_heap, nows>>

\* the system clock is set to an earlier time (settimeofday, NTP step)
ClockSetBack ==
    /\ \E earlier \in 0..(clock - 1) : clock' = earlier
    /\ UNCHANGED <<runnerVars, buffers, calls, last, vm_heap, nows>>

\* AgentObject.cpp:30-35  agent.monotonicNow(): the milliseconds that
\* std::chrono::system_clock shows
monotonic_now(system_clock) == NormalCompletion(Num(system_clock))

\* the running script calls $262.agent.monotonicNow()
MonotonicNow ==
    /\ pc = "exec"
    /\ calls < MaxCalls
    /\ nows' = Append(nows, monotonic_now(clock)[2])
    /\ calls' = calls + 1
    /\ UNCHANGED <<runnerVars, buffers, last, vm_heap, clock>>

\* the running script calls $262.agent.sleep(...)
Sleep ==
    /\ pc = "exec"
    /\ calls < MaxCalls
    /\ \E args \in SleepArguments :
         \E r \in sleep(args) :
           last' = Some([function |-> "sleep",
                         arguments |-> args,
                         completion |-> r.completion,
                         milliseconds |-> r.milliseconds,
                         blocked |-> r.blocked])
    /\ calls' = calls + 1
    /\ UNCHANGED <<runnerVars, buffers, vm_heap, clock, nows>>

NextAgent ==
    \/ ClockAdvances
    \/ ClockSetBack
    \/ MonotonicNow
    \/ Sleep

SpecAgent == InitRealm /\ [][NextAgent]_vars

-----------------------------------------------------------------------------
(* Properties of the runner *)

Sources == DOMAIN trace

Harness == 1..Len(harness_files)

\* run_it() returned an error for source i
Failed(i) == trace[i].returned /\ Has(trace[i].error)

\* the bytes of a report's output member, none when it has no such member
OutputOf(report) == IF Has(report.output) THEN Get(report.output) ELSE <<>>

\* the positions of main() from fflush(stdout) on
Finalizing == {"flush", "restore", "close_read", "emit", "done", "blocked"}

SourceFailed(i) ==
    \/ trace[i].io \in {"open_fail", "read_fail"}
    \/ trace[i].parsed /\ trace[i].diags # <<>>
    \/ Has(trace[i].thrown)

\* C2 (as claimed): when harness file i is the first to fail (I/O, parse or
\* runtime failure), nothing after it is read, parsed or executed, and once
\* run_it() has returned the report has harness_error = true, harness_file =
\* the path of file i and that file's error.
C2_FirstHarnessFailureAborts ==
    \A i \in Harness :
        (SourceFailed(i) /\ \A j \in 1..(i - 1) : ~SourceFailed(j)) =>
            /\ \A j \in Sources : j > i => trace[j] = NotRun
            /\ trace[i].returned =>
                 /\ result_object.harness_error = Some(TRUE)
                 /\ result_object.harness_file = Some(harness_files[i])
                 /\ Has(trace[i].error)
                 /\ result_object.error = trace[i].error

C4_OutputHoldsEverythingPrinted ==
    \A k \in 1..Len(tty) : OutputOf(tty[k]) = written

\* C4 (amended): the output of the report is the first BUFFER_SIZE bytes of
\* what the print hook wrote during the whole run, harness files included,
\* so everything printed is present when it is at most BUFFER_SIZE bytes,
\* also when the script threw after printing; the member is absent when
\* nothing was printed.
C4_OutputHoldsFirstBufferOfPrinted ==
    \A k \in 1..Len(tty) :
        /\ OutputOf(tty[k]) = Take(written, BUFFER_SIZE)
        /\ Total(written) <= BUFFER_SIZE => OutputOf(tty[k]) = written
        /\ Has(tty[k].output) <=> written # <<>>

\* C4 witness: a harness file printed, the main source printed and then
\* threw, and the report holds both lines and the runtime error.
C4_Witness ==
    /\ Len(tty) = 1
    /\ Len(written) = 2
    /\ written[1][1] # written[2][1]
    /\ OutputOf(tty[1]) = written
    /\ Has(trace[NumSources].thrown)
    /\ Has(tty[1].error)

\* C9: a source for which the parser reported diagnostics is never executed;
\* run_it() returns [phase parse, type SyntaxError, details = the rendering
\* of the first diagnostic], no later source is run, main() goes on with the
\* tear-down, and the report that is written holds that error.
C9_ParseErrorEndsRun ==
    \A i \in Sources :
        (trace[i].parsed /\ trace[i].diags # <<>>) =>
            LET d == trace[i].diags[1]
                expected ==
                    [phase |-> <<"parse">>, type |-> <<"SyntaxError">>,
                     details |-> << d.message \o " (line: " \o d.line
                                     \o ", column: " \o d.column \o ")" >>]
            IN  /\ ~trace[i].executed
                /\ ~Has(trace[i].thrown)
                /\ trace[i].returned
                /\ trace[i].error = Some(expected)
                /\ \A j \in Sources : j > i => trace[j] = NotRun
                /\ pc \in Finalizing
                /\ result_object.error = Some(expected)
                /\ \A k \in 1..Len(tty) : tty[k].error = Some(expected)

\* C9 witness: the parser reported two different diagnostics for the main
\* source and the report was written.
C9_Witness ==
    /\ Len(tty) = 1
    /\ trace[NumSources].parsed
    /\ Len(trace[NumSources].diags) = 2
    /\ trace[NumSources].diags[1] # trace[NumSources].diags[2]
    /\ tty[1].error # None

\* C10 (as claimed): a source that could not be opened or read is neither
\* parsed nor executed; run_it() returns at once an error that has details
\* and neither phase nor type.
C10_ReadFailureEndsRun ==
    \A i \in Sources :
        trace[i].io \in {"open_fail", "read_fail"} =>
            /\ ~trace[i].parsed
            /\ ~trace[i].executed
            /\ trace[i].returned
            /\ Has(trace[i].error)
            /\ Has(Get(trace[i].error).details)
            /\ Get(trace[i].error).phase = None
            /\ Get(trace[i].error).type = None

-----------------------------------------------------------------------------
(* Properties of $262.detachArrayBuffer (SpecHost) *)

\* the last host call was detachArrayBuffer on ArrayBuffer b with a key that
\* is the same value as b's detach key (structurally: the model's values
\* have one representation each, so SameValue is equality)
DetachedWithItsKey(b) ==
    /\ Has(last)
    /\ Get(last).function = "detachArrayBuffer"
    /\ argument(Get(last).arguments, 0) = Obj(b)
    /\ argument(Get(last).arguments, 1) = Get(last).before[b].detach_key

C6_DetachRefusesWrongBufferOrKey ==
    Has(last) /\ Get(last).function = "detachArrayBuffer" =>
        LET x == argument(Get(last).arguments, 0)
            key == argument(Get(last).arguments, 1)
            is_buffer == x[1] = "object" /\ x[2] \in BufferIds
            refused == ~is_buffer \/ key # Get(last).before[x[2]].detach_key
        IN  /\ refused <=> Get(last).completion = ThrowTypeError
            /\ refused => buffers = Get(last).before
            /\ Get(last).completion \in {ThrowTypeError, NormalCompletion(Null)}

\* C6 witness: a key that differs from the detach key only in the sign of
\* zero is refused and the buffer stays not detached.
C6_Witness ==
    /\ Has(last)
    /\ \E b \in BufferIds :
         /\ Get(last).arguments = <<Obj(b), Num("-0")>>
         /\ Get(last).before[b].detach_key = Num("+0")
         /\ Get(last).completion = ThrowTypeError
         /\ ~buffers[b].detached

-----------------------------------------------------------------------------
(* Properties of the classification of an uncaught exception (SpecClassify) *)

Usable(slot) == slot # Empty /\ slot # Accessor

\* a property found on the object or else on its prototype, no getter called
Found(exc, property) ==
    IF exc.own[property] # Empty THEN exc.own[property] ELSE exc.proto[property]

\* the three rules for type, for a given way of looking properties up
TypeBy(exc, lookup(_, _)) ==
    IF exc.value[1] = "object" /\ Usable(lookup(exc, "name"))
    THEN to_string_without_side_effects(lookup(exc, "name"))
    ELSE IF /\ exc.value[1] = "object"
            /\ lookup(exc, "constructor")[1] = "object"
            /\ get(lookup(exc, "constructor"), "name") # Empty
         THEN to_string_without_side_effects(get(lookup(exc, "constructor"), "name"))
         ELSE to_string_without_side_effects(exc.value)

Own(exc, property) == exc.own[property]

\* the error of the source that threw, as run_it() returned it
ErrorOf(i) == Get(trace[i].error)

\* C7 (as claimed): the error of an uncaught exception has phase runtime and
\* the type given by the three rules applied to the OWN name and constructor
\* properties of the thrown object; new TypeError("bad") gives TypeError/bad.
C7_TypeFromOwnProperties ==
    \A i \in Sources :
        Has(trace[i].thrown) =>
            LET exc == Get(trace[i].thrown)
            IN  /\ ErrorOf(i).phase = Some("runtime")
                /\ ErrorOf(i).type = Some(TypeBy(exc, Own))
                /\ exc = TypeErrorBad =>
                     /\ ErrorOf(i).type = Some("TypeError")
                     /\ ErrorOf(i).details = Some("bad")

\* C7 (amended): the error of an uncaught exception has phase runtime and
\* the type given by the three rules applied to the name and constructor
\* found on the thrown object or along its prototype chain without calling
\* getters: (1) a name that is found and is no accessor, else (2) the name
\* read from a constructor that is found and is an object, else (3), also
\* for every thrown non-object, the text of the thrown value.
\* new TypeError("bad") gives type TypeError (the name on the prototype) and
\* details bad, and the report that is written holds this error.
C7_TypeFromLookedUpProperties ==
    \A i \in Sources :
        Has(trace[i].thrown) =>
            LET exc == Get(trace[i].thrown)
            IN  /\ ErrorOf(i).phase = Some("runtime")
                /\ ErrorOf(i).type = Some(TypeBy(exc, Found))
                /\ exc.value[1] # "object" =>
                     ErrorOf(i).type = Some(to_string_without_side_effects(exc.value))
                /\ exc = TypeErrorBad =>
                     /\ ErrorOf(i).type = Some("TypeError")
                     /\ ErrorOf(i).details = Some("bad")
                /\ \A k \in 1..Len(tty) : tty[k].error = trace[i].error

\* C7 witness: new TypeError("bad") was thrown by the main source and the
\* report with type TypeError was written.
C7_Witness ==
    /\ Len(tty) = 1
    /\ trace[NumSources].thrown = Some(TypeErrorBad)
    /\ Get(tty[1].error).type = Some("TypeError")

\* C8 (as claimed): details is the message exactly when the thrown value is
\* an object with an OWN message property that is no accessor.
C8_DetailsFromOwnMessage ==
    \A i \in Sources :
        Has(trace[i].thrown) =>
            LET exc == Get(trace[i].thrown)
            IN  ErrorOf(i).details =
                    IF exc.value[1] = "object" /\ Usable(exc.own["message"])
                    THEN Some(to_string_without_side_effects(exc.own["message"]))
                    ELSE None

\* C8 (amended): details is the message exactly when the thrown value is an
\* object on which a message that is no accessor is found, on the object or
\* along its prototype chain, whichever rule gave the type; a thrown
\* non-object, or an object on which no message or an accessor is found,
\* has no details.
C8_DetailsFromLookedUpMessage ==
    \A i \in Sources :
        Has(trace[i].thrown) =>
            LET exc == Get(trace[i].thrown)
            IN  /\ ErrorOf(i).details =
                     IF exc.value[1] = "object" /\ Usable(Found(exc, "message"))
                     THEN Some(to_string_without_side_effects(Found(exc, "message")))
                     ELSE None
                /\ exc.value[1] # "object" => ErrorOf(i).details = None

\* C8 witness: the type of a thrown object came from rule (3), its name being
\* an accessor and no constructor being found, and details is its message.
C8_Witness ==
    \E i \in Sources :
        /\ Has(trace[i].thrown)
        /\ Get(trace[i].thrown).own["name"] = Accessor
        /\ Found(Get(trace[i].thrown), "constructor") = Empty
        /\ ErrorOf(i).type = Some("[object Error]")
        /\ ErrorOf(i).details = Some("bad")

-----------------------------------------------------------------------------
(* Properties of the runner: exit status, the drained output, termination *)

Running(i) == trace[i].io # "none" /\ ~trace[i].returned

\* C19: the pipe is read once, after every source that was run has returned:
\* until then nothing has been read, afterwards the buffer holds the first
\* BUFFER_SIZE bytes written and is not read into again.  The output of the
\* report is a prefix of the bytes written during the run, at most
\* BUFFER_SIZE bytes long, and the member is absent when nothing was written.
C19_OutputDrainedOnce ==
    /\ pc \in {"dup", "pipe", "dup2", "close_write", "read", "parse", "exec", "flush"} =>
         /\ nread = 0
         /\ buffer = <<>>
         /\ pipe \o stdio = written
    /\ pc \in {"restore", "close_read", "emit"} =>
         /\ \A i \in Sources : ~Running(i)
         /\ buffer = Take(written, BUFFER_SIZE)
         /\ pipe = Drop(written, BUFFER_SIZE)
         /\ nread = (IF written = <<>> THEN -1 ELSE Total(buffer))
    /\ \A k \in 1..Len(tty) :
         LET out == OutputOf(tty[k])
         IN  /\ Take(written, Total(out)) = out
             /\ Total(out) <= BUFFER_SIZE
             /\ written = <<>> => ~Has(tty[k].output)
             /\ Has(tty[k].output) => Total(out) > 0

\* C19 witness: more than BUFFER_SIZE bytes were written and the report holds
\* exactly the first BUFFER_SIZE of them.
C19_Witness ==
    /\ Len(tty) = 1
    /\ Total(written) > BUFFER_SIZE
    /\ Total(OutputOf(tty[1])) = BUFFER_SIZE
    /\ OutputOf(tty[1]) # written

\* C20 (as claimed): whatever the scripts print, main() is never stuck: as
\* long as it has not returned it can take a step (every program of the model
\* can complete, so a state without a step is a write() on the full pipe or
\* a read() that never returns).
C20_RunnerNeverStuck ==
    pc = "done" \/ ENABLED Next

-----------------------------------------------------------------------------
(* Properties of $262.IsHTMLDDA *)

\* C13: IsHTMLDDA called without arguments returns null; called with a first
\* argument that is the empty string it returns null; called with any other
\* first argument (a non-empty string, the number 0, undefined, null, an
\* object) it returns undefined; new IsHTMLDDA(...) throws the
\* not-a-constructor TypeError whatever the arguments.  Neither changes a
\* buffer.
C13_IsHTMLDDACallAndConstruct ==
    Has(last) =>
      LET call == Get(last)
          args == call.arguments
      IN  /\ call.function = "IsHTMLDDA" =>
               /\ args = <<>> => call.completion = <<"normal", Null>>
               /\ args # <<>> /\ args[1] = <<"string", "">> =>
                    call.completion = <<"normal", Null>>
               /\ args # <<>> /\ args[1] # <<"string", "">> =>
                    call.completion = <<"normal", Undefined>>
               /\ buffers = call.before
          /\ call.function = "new IsHTMLDDA" =>
               /\ call.completion =
                    <<"throw", <<"object", "TypeError: IsHTMLDDA is not a constructor">>>>
               /\ buffers = call.before

\* C13 witness: IsHTMLDDA(0) returned undefined.
C13_Witness ==
    /\ Has(last)
    /\ Get(last).function = "IsHTMLDDA"
    /\ Get(last).arguments = <<Num("+0")>>
    /\ Get(last).completion = <<"normal", Undefined>>

-----------------------------------------------------------------------------
(* Properties of the sequence of sources *)

\* the global variables of the realm the interpreter was created with
Globals == vm_heap[interpreter_global_object(vm_heap)].bindings

-----------------------------------------------------------------------------
(* Properties of evalScript and createRealm *)

EvalScriptCalled == Has(last) /\ Get(last).function = "evalScript"

\* C11 (as claimed): every evalScript call ends in one of three ways: the
\* text did not parse, nothing ran and a SyntaxError with the first
\* diagnostic is thrown; the nested script ran and threw v, and v is thrown;
\* the nested script ran to completion and undefined is returned.
C11_EvalScriptThreeOutcomes ==
    EvalScriptCalled =>
      LET call == Get(last)
      IN  \/ /\ call.parsed
             /\ call.program.diags # <<>>
             /\ ~Has(call.run)
             /\ call.completion =
                  <<"throw", <<"object", "SyntaxError: " \o error_to_string(call.program.diags[1])>>>>
          \/ /\ Has(call.run)
             /\ Has(call.program.thrown)
             /\ call.completion = <<"throw", Get(call.program.thrown)>>
          \/ /\ Has(call.run)
             /\ ~Has(call.program.thrown)
             /\ call.completion = <<"normal", Undefined>>

\* the argument of the call cannot be converted to a string
ConversionThrows(call) ==
    /\ call.arguments # <<>>
    /\ \/ call.arguments[1][1] = "symbol"
       \/ call.arguments[1] = <<"object", "thrower">>

\* C11 (amended): evalScript has four outcomes.  When converting the argument
\* to a string throws (a Symbol, an object whose toString throws), that
\* exception is thrown and nothing is parsed or run.  Otherwise the text is
\* parsed: with diagnostics nothing runs and a SyntaxError carrying the first
\* diagnostic is thrown; else the script runs, and evalScript throws the very
\* value the script threw or returns undefined.  No call changes the heap.
C11_EvalScriptFourOutcomes ==
    EvalScriptCalled =>
      LET call == Get(last)
      IN  /\ vm_heap = call.before
          /\ IF ConversionThrows(call)
             THEN /\ ~call.parsed
                  /\ ~Has(call.run)
                  /\ call.completion[1] = "throw"
                  /\ call.completion[2] = (IF call.arguments[1][1] = "symbol"
                                           THEN <<"object", "TypeError">>
                                           ELSE <<"number", "1">>)
             ELSE /\ call.parsed
                  /\ IF call.program.diags # <<>>
                     THEN /\ ~Has(call.run)
                          /\ call.completion =
                               <<"throw", <<"object", "SyntaxError: "
                                    \o error_to_string(call.program.diags[1])>>>>
                     ELSE /\ Has(call.run)
                          /\ call.completion =
                               (IF Has(call.program.thrown)
                                THEN <<"throw", Get(call.program.thrown)>>
                                ELSE <<"normal", Undefined>>)

\* C11 witness: a text with two diagnostics was refused with the first one.
C11_Witness ==
    /\ EvalScriptCalled
    /\ Len(Get(last).program.diags) = 2
    /\ Get(last).program.diags[1] # Get(last).program.diags[2]
    /\ Get(last).parsed
    /\ Get(last).completion[1] = "throw"

\* every GlobalObject has one $262Object, the one it allocated, which has an
\* AgentObject and an IsHTMLDDA of its own; these references are members of
\* the C++ objects and no script can reach them
RealmsOwnTheirHosts ==
    /\ \A g \in global_objects(vm_heap) :
         /\ vm_heap[g].m_262 \in host_objects(vm_heap)
         /\ { h \in host_objects(vm_heap) : vm_heap[h].global_object = g } = {vm_heap[g].m_262}
    /\ \A h \in host_objects(vm_heap) :
         /\ vm_heap[h].global_object \in global_objects(vm_heap)
         /\ vm_heap[vm_heap[h].m_agent].kind = "AgentObject"
         /\ vm_heap[vm_heap[h].m_agent].global_object = vm_heap[h].global_object
         /\ vm_heap[vm_heap[h].m_is_htmldda].kind = "IsHTMLDDA"
         /\ vm_heap[vm_heap[h].m_is_htmldda].global_object = vm_heap[h].global_object
         /\ \A other \in host_objects(vm_heap) \ {h} :
              /\ vm_heap[other].m_agent # vm_heap[h].m_agent
              /\ vm_heap[other].m_is_htmldda # vm_heap[h].m_is_htmldda

\* the $262 object a createRealm() call returned belongs to a realm made of
\* cells the heap did not have before the call: its global, agent and
\* IsHTMLDDA properties are objects no earlier realm has, and the cells that
\* existed are as they were
CreateRealmIsFresh ==
    Has(last) /\ Get(last).function = "createRealm" =>
      LET call == Get(last)
          old == 1..Len(call.before)
          h == call.completion[2][2]
      IN  /\ call.completion[1] = "normal"
          /\ h \in host_objects(vm_heap) \ old
          /\ vm_heap[h].global_object \in global_objects(vm_heap) \ old
          /\ vm_heap[h].properties["global"] = <<"object", vm_heap[h].global_object>>
          /\ vm_heap[h].properties["agent"] = <<"object", vm_heap[h].m_agent>>
          /\ vm_heap[h].properties["IsHTMLDDA"] = <<"object", vm_heap[h].m_is_htmldda>>
          /\ vm_heap[h].m_agent \notin old
          /\ vm_heap[h].m_is_htmldda \notin old
          /\ Cardinality({h, vm_heap[h].global_object, vm_heap[h].m_agent,
                          vm_heap[h].m_is_htmldda}) = 4
          /\ \A c \in old : vm_heap[c] = call.before[c]
          /\ Cardinality(global_objects(vm_heap)) =
               Cardinality(global_objects(call.before)) + 1

\* C12 (as claimed): createRealm() returns the $262 object of a new realm
\* whose global, agent and IsHTMLDDA no other realm has, and in every state
\* every realm owns one $262 object whose global property is the realm's
\* global object.
C12_GlobalPropertyAlwaysOwnGlobal ==
    /\ CreateRealmIsFresh
    /\ RealmsOwnTheirHosts
    /\ \A h \in host_objects(vm_heap) :
         vm_heap[h].properties["global"] = <<"object", vm_heap[h].global_object>>

\* C12 (amended): createRealm() returns the $262 object of a new realm whose
\* global, agent and IsHTMLDDA no other realm has; in every state every realm
\* owns one $262 object with its own agent and IsHTMLDDA.  The global
\* property of a $262 object is its realm's global object when the realm is
\* made; it is writable, so it holds whatever a script last assigned to it.
C12_GlobalPropertyOwnGlobalUntilAssigned ==
    /\ CreateRealmIsFresh
    /\ RealmsOwnTheirHosts
    /\ ~Has(last) =>
         \A h \in host_objects(vm_heap) :
           vm_heap[h].properties["global"] = <<"object", vm_heap[h].global_object>>
    /\ Has(last) /\ Get(last).function = "assign" =>
         LET call == Get(last)
         IN  /\ vm_heap[call.host].properties[call.arguments[1]] = call.arguments[2]
             /\ call.completion = <<"normal", call.arguments[2]>>
             /\ \A c \in 1..Len(vm_heap) :
                  /\ c # call.host => vm_heap[c] = call.before[c]
                  /\ vm_heap[c].kind = call.before[c].kind
                  /\ vm_heap[c].global_object = call.before[c].global_object

\* C12 witness: a script running in the second realm made a third one.
C12_Witness ==
    /\ Has(last)
    /\ Get(last).function = "createRealm"
    /\ Get(last).caller # 1
    /\ Cardinality(global_objects(Get(last).before)) = 2
    /\ Cardinality(global_objects(vm_heap)) = 3
    /\ Get(last).completion[2][2] \notin 1..Len(Get(last).before)

-----------------------------------------------------------------------------
(* Properties of $262.agent *)

\* C15 (as claimed): the values successive monotonicNow() calls return never
\* decrease, whatever happens to the clock between the calls.
C15_MonotonicNowNeverDecreases ==
    \A i \in 1..(Len(nows) - 1) : nows[i][2] <= nows[i + 1][2]

\* C16 (as claimed): sleep(ms) with n = ToInt32(ms) does not block for n <= 0
\* and blocks for exactly n * 1000 microseconds for n > 0, whatever n is,
\* and returns undefined.
C16_SleepBlocksForRequestedTime ==
    Has(last) /\ Get(last).function = "sleep" /\ Has(Get(last).milliseconds) =>
      LET call == Get(last)
          n == Get(call.milliseconds)
      IN  /\ call.completion = <<"normal", Undefined>>
          /\ IF n[2] >= 32768 \/ n = <<0, 0>>
             THEN call.blocked = <<0, 0>>
             ELSE <<call.blocked[1], call.blocked[2], 0>> = Times1000(n)

=============================================================================
